---- MODULE Spec2Model ----
(***************************************************************************)
(* Model of the adaptive cache / polling core of the account monitor:      *)
(*   src/api_manager.py  SmartCacheManager, OptimizedAPIManager            *)
(*   src/core.py         tracked-record store, continuous_monitor,         *)
(*                       wait_for_status_change                            *)
(* The program runs on one asyncio event loop: code between two awaits is  *)
(* one atomic step, and every await is a point where other tasks may run.  *)
(***************************************************************************)
EXTENDS Integers, Sequences, FiniteSets, TLC

(***************************************************************************)
(* Python's Optional: None is the empty tuple, a present value x is <<x>>. *)
(***************************************************************************)
None == << >>
Some(x) == << x >>
Val(o) == o[1]

(***************************************************************************)
(* Program constants (src/config.py), in seconds.                          *)
(***************************************************************************)
CACHE_TTL_MIN == 60
CACHE_TTL_NORMAL == 90
CACHE_TTL_MAX == 120
BURST_MODE_DURATION == 60
CSRF_TOKEN_TTL == 1200

(***************************************************************************)
(* Bounds of the model.                                                    *)
(***************************************************************************)
\* the wall clock runs from 0 to MaxNow
MaxNow == 120
\* the quiet-cycle counter is unbounded in the code; the model stops counting here
MaxQuiet == 4
\* adjust_ttl is called with 0..MaxChanges changes
MaxChanges == 5

\* datetime.now() advances by one of these amounts between two steps
ClockSteps == {30, 60}

(***************************************************************************)
(* Remote records as fetch_all_accounts_batch parses them (INDEX_MAP):     *)
(* every field is a string.                                                *)
(***************************************************************************)
Rec(id, sender, status, group, taken) ==
    [idAccount |-> id, Sender |-> sender, Status |-> status, Group |-> group, Taken |-> taken]

\* the tasks that call fetch_all_accounts_batch: the reconciliation loop and a lookup
Callers == {"monitor", "lookup"}

\* identifiers that watch sessions put in burst mode
AccountIds == {"7", "8"}

\* the watch sessions (calls of wait_for_status_change) that may run at once
Sessions == {"w1", "w2"}

\* results a remote fetch can parse in the cache specification
FetchedSnapshots ==
    { << >>,
      << Rec("7", "A@x.com", "LOGGING", "G", "0") >>,
      << Rec("7", "A@x.com", "AVAILABLE", "G", "0"), Rec("8", "b@x.com", "AVAILABLE", "OTHER", "0") >> }

VARIABLES
    smart_cache,   \* the global SmartCacheManager
    now,           \* datetime.now()
    api,           \* OptimizedAPIManager: the cached CSRF credential and its expiry
    fetchers,      \* per caller: where its call of fetch_all_accounts_batch stands
    flight,        \* history: the calls in flight in the order they were issued, and what happened meanwhile
    remote,        \* the remote source: the records a batch request would return now
    monitored,     \* monitored_accounts.json: the tracked records, in the file's key order
    taken_queue,   \* Taken.json: the extraction items waiting
    default_chat_id, \* continuous_monitor's default_chat_id (None without admin_ids)
    ioFaulty,      \* whether reads and writes of monitored_accounts.json may fail
    mon,           \* continuous_monitor: its position and local variables
    budget,        \* how many remote changes, admissions and cycles the model has taken
    cycleLog,      \* history: the side effects of the current reconciliation cycle
    watch_account_id, \* per watch session: its local account_id, None outside Phase B
    ws,            \* one call of wait_for_status_change: its position, local variables and result
    pending_queue, \* data/pending.json: the external-sync items added on identifier discovery
    quietRun,      \* history: length of the current run of adjust_ttl calls with 0 or 1 changes (3 = three or more)
    lastOp         \* history: the operation the last step performed, with its arguments

vars == << smart_cache, now, api, fetchers, flight, remote, monitored, taken_queue, default_chat_id,
          ioFaulty, mon, budget, cycleLog, watch_account_id, ws, pending_queue, quietRun, lastOp >>

\* the variables of the watch session followed step by step
sessionVars == << ws, pending_queue >>

\* the variables of the reconciliation loop and of the tracked-record store
monitorVars == << remote, monitored, taken_queue, default_chat_id, ioFaulty, mon, budget, cycleLog >>

\* the variables of the fetch gateway, which the cache's own methods leave alone
fetchVars == << api, fetchers, flight >>

(***************************************************************************)
(* SmartCacheManager (src/api_manager.py).  Each method is a function of   *)
(* the manager's fields c (and of the clock t where it reads the clock).   *)
(***************************************************************************)
SmartCacheManager_init ==
    [ cache |-> None,
      cache_timestamp |-> None,
      cache_ttl |-> CACHE_TTL_NORMAL,
      burst_mode_active |-> FALSE,
      burst_mode_started |-> None,
      consecutive_quiet_cycles |-> 0,
      last_successful_cache |-> None,
      last_successful_timestamp |-> None,
      burst_targets |-> {} ]

\* Python truthiness of an Optional[list]: None and the empty list are both false
Truthy(o) == o # None /\ Val(o) # << >>

\* mutant: the burst check is forgotten
is_cache_valid_ignoring_burst(c, t) ==
    IF c.cache = None \/ c.cache_timestamp = None THEN FALSE
    ELSE t - Val(c.cache_timestamp) < c.cache_ttl

is_cache_valid(c, t) ==
    IF c.cache = None \/ c.cache_timestamp = None THEN FALSE
    ELSE IF c.burst_mode_active THEN FALSE
    ELSE t - Val(c.cache_timestamp) < c.cache_ttl

\* mutant: every activation restarts the expiry clock
activate_burst_mode_restamping(c, account_id, t) ==
    [c EXCEPT !.burst_mode_active = TRUE,
              !.burst_mode_started = Some(t),
              !.burst_targets = @ \cup {account_id}]

activate_burst_mode(c, account_id, t) ==
    LET c1 == IF ~c.burst_mode_active
              THEN [c EXCEPT !.burst_mode_active = TRUE, !.burst_mode_started = Some(t)]
              ELSE c
    IN  [c1 EXCEPT !.burst_targets = @ \cup {account_id}]

\* mutant: the expiry clears the flag and leaves the targets and the start time
check_burst_mode_flag_only(c, t) ==
    IF ~c.burst_mode_active THEN c
    ELSE IF t - Val(c.burst_mode_started) >= BURST_MODE_DURATION
         THEN [c EXCEPT !.burst_mode_active = FALSE]
         ELSE c

check_burst_mode(c, t) ==
    IF ~c.burst_mode_active THEN c
    ELSE IF t - Val(c.burst_mode_started) >= BURST_MODE_DURATION
         THEN [c EXCEPT !.burst_mode_active = FALSE,
                        !.burst_mode_started = None,
                        !.burst_targets = {}]
         ELSE c

\* mutant: high activity shortens the TTL by a step instead of setting it to the minimum
adjust_ttl_stepping(c, changes_detected) ==
    IF changes_detected >= 5
    THEN [c EXCEPT !.cache_ttl = @ - 30, !.consecutive_quiet_cycles = 0]
    ELSE IF changes_detected >= 2
    THEN [c EXCEPT !.cache_ttl = CACHE_TTL_NORMAL, !.consecutive_quiet_cycles = 0]
    ELSE LET q == c.consecutive_quiet_cycles + 1
         IN  [c EXCEPT !.consecutive_quiet_cycles = q,
                       !.cache_ttl = IF q >= 3 THEN CACHE_TTL_MAX ELSE @]

\* mutant: the TTL is raised after two quiet cycles, and a middling cycle keeps the counter
adjust_ttl_eager(c, changes_detected) ==
    IF changes_detected >= 5
    THEN [c EXCEPT !.cache_ttl = CACHE_TTL_MIN, !.consecutive_quiet_cycles = 0]
    ELSE IF changes_detected >= 2
    THEN [c EXCEPT !.cache_ttl = CACHE_TTL_NORMAL]
    ELSE LET q == c.consecutive_quiet_cycles + 1
         IN  [c EXCEPT !.consecutive_quiet_cycles = q,
                       !.cache_ttl = IF q >= 2 THEN CACHE_TTL_MAX ELSE @]

adjust_ttl(c, changes_detected) ==
    IF changes_detected >= 5
    THEN [c EXCEPT !.cache_ttl = CACHE_TTL_MIN, !.consecutive_quiet_cycles = 0]
    ELSE IF changes_detected >= 2
    THEN [c EXCEPT !.cache_ttl = CACHE_TTL_NORMAL, !.consecutive_quiet_cycles = 0]
    ELSE LET q == c.consecutive_quiet_cycles + 1
         IN  [c EXCEPT !.consecutive_quiet_cycles = q,
                       !.cache_ttl = IF q >= 3 THEN CACHE_TTL_MAX ELSE @]

\* mutant: a successful result is dropped when the cache already holds a snapshot
update_cache_first_writer(c, new_data, success, t) ==
    IF success /\ c.cache # None /\ c.cache_timestamp # None
    THEN c
    ELSE IF success
    THEN [c EXCEPT !.cache = Some(new_data),
                   !.cache_timestamp = Some(t),
                   !.last_successful_cache = Some(new_data),
                   !.last_successful_timestamp = Some(t)]
    ELSE IF Truthy(c.last_successful_cache)
         THEN [c EXCEPT !.cache = c.last_successful_cache,
                        !.cache_timestamp = c.last_successful_timestamp]
         ELSE c

update_cache(c, new_data, success, t) ==
    IF success
    THEN [c EXCEPT !.cache = Some(new_data),
                   !.cache_timestamp = Some(t),
                   !.last_successful_cache = Some(new_data),
                   !.last_successful_timestamp = Some(t)]
    ELSE IF Truthy(c.last_successful_cache)
         THEN [c EXCEPT !.cache = c.last_successful_cache,
                        !.cache_timestamp = c.last_successful_timestamp]
         ELSE c

get_cache(c) == c.cache

\* mutant: the invalidation drops the fallback copy as well
invalidate_cache_and_fallback(c) ==
    [c EXCEPT !.cache = None, !.cache_timestamp = None,
              !.last_successful_cache = None, !.last_successful_timestamp = None]

\* add_sender, on a successful creation, drops the snapshot to force a refetch
invalidate_cache(c) == [c EXCEPT !.cache = None, !.cache_timestamp = None]

\* wait_for_status_change, when it ends (final status or budget exhausted)
cancel_burst(c, account_id) ==
    [c EXCEPT !.burst_mode_active = FALSE, !.burst_targets = @ \ {account_id}]

(***************************************************************************)
(* The specification of the shared cache: every caller's use of it, in any *)
(* order.  The methods are synchronous, so each call is one step.          *)
(***************************************************************************)
Op(op, id, n, data) == [op |-> op, id |-> id, n |-> n, data |-> data]

\* OptimizedAPIManager.__init__, and no call of fetch_all_accounts_batch in flight
InitFetch ==
    /\ api = [csrf_token |-> None, csrf_expires_at |-> None]
    /\ fetchers = [f \in Callers |-> "idle"]
    /\ flight = [order |-> << >>, overtaken |-> {}, posts |-> [f \in Callers |-> 0],
                 invalidated |-> FALSE]

\* the reconciliation loop not started, nothing tracked, nothing remote
MonitorIdle ==
    [ pc |-> "start", accounts |-> << >>, all_accounts |-> << >>, existing_ids |-> {},
      auto_added |-> FALSE, j |-> 1, idx |-> 1, changes_detected |-> 0, cycle_delay |-> "",
      prev_all_accounts |-> None, prev_log |-> << >>, fetched |-> "" ]

\* wait_for_status_change before its first lookup: no identifier, no record, nothing returned
WatchIdle ==
    [ pc |-> "a_lookup", initial_attempt |-> 1, attempt |-> 0,
      account_id |-> "", account_info |-> None, last_seen |-> None,
      activated |-> FALSE, admitted |-> FALSE,
      last_status |-> None, status_changes |-> << >>, fast_detections |-> 0, pause |-> 0,
      result |-> "running", ret_success |-> FALSE, ret_record |-> None ]

InitSession ==
    /\ ws = WatchIdle
    /\ pending_queue = << >>

InitStore ==
    /\ remote = << >>
    /\ monitored = << >>
    /\ taken_queue = << >>
    /\ default_chat_id = None
    /\ ioFaulty = FALSE
    /\ mon = MonitorIdle
    /\ budget = [changes |-> 0, admissions |-> 0, cycles |-> 0, errors |-> 0]
    /\ cycleLog = << >>

InitCache ==
    /\ smart_cache = SmartCacheManager_init
    /\ InitFetch
    /\ InitStore
    /\ now = 0
    /\ watch_account_id = [w \in Sessions |-> None]
    /\ InitSession
    /\ quietRun = 0
    /\ lastOp = Op("init", "", 0, << >>)

Tick ==
    /\ \E d \in ClockSteps :
          /\ now + d <= MaxNow
          /\ now' = now + d
    /\ lastOp' = Op("tick", "", 0, << >>)
    /\ UNCHANGED << smart_cache, watch_account_id, sessionVars, quietRun, fetchVars, monitorVars >>

UpdateCache ==
    /\ \E data \in FetchedSnapshots, success \in BOOLEAN :
          /\ smart_cache' = update_cache(smart_cache, data, success, now)
          /\ lastOp' = Op(IF success THEN "update_ok" ELSE "update_failed", "", 0, data)
    /\ UNCHANGED << now, watch_account_id, sessionVars, quietRun, fetchVars, monitorVars >>

AddSender ==
    /\ smart_cache' = invalidate_cache(smart_cache)
    /\ lastOp' = Op("add_sender", "", 0, << >>)
    /\ UNCHANGED << now, watch_account_id, sessionVars, quietRun, fetchVars, monitorVars >>

\* Phase A of a watch session resolves its identifier and activates burst mode
ActivateBurst ==
    /\ \E w \in Sessions, id \in AccountIds :
          /\ watch_account_id[w] = None
          /\ smart_cache' = activate_burst_mode(smart_cache, id, now)
          /\ watch_account_id' = [watch_account_id EXCEPT ![w] = Some(id)]
          /\ lastOp' = Op("activate_burst_mode", id, 0, << >>)
    /\ UNCHANGED << now, quietRun, fetchVars, monitorVars, sessionVars >>

\* every Phase B attempt of a watch session starts with the expiry check
CheckBurst ==
    /\ \E w \in Sessions : watch_account_id[w] # None
    /\ smart_cache' = check_burst_mode(smart_cache, now)
    /\ lastOp' = Op("check_burst_mode",
                    IF smart_cache' # smart_cache THEN "expired" ELSE "", 0, << >>)
    /\ UNCHANGED << now, watch_account_id, sessionVars, quietRun, fetchVars, monitorVars >>

AdjustTTL ==
    /\ \E n \in 0..MaxChanges :
          /\ n <= 1 => smart_cache.consecutive_quiet_cycles < MaxQuiet
          /\ smart_cache' = adjust_ttl(smart_cache, n)
          /\ quietRun' = IF n <= 1 THEN (IF quietRun < 3 THEN quietRun + 1 ELSE 3) ELSE 0
          /\ lastOp' = Op("adjust_ttl", "", n, << >>)
    /\ UNCHANGED << now, watch_account_id, sessionVars, fetchVars, monitorVars >>

\* a watch session in Phase B ends: final status reached, or budget exhausted
WatchEnd ==
    /\ \E w \in Sessions :
          /\ watch_account_id[w] # None
          /\ smart_cache' = cancel_burst(smart_cache, Val(watch_account_id[w]))
          /\ watch_account_id' = [watch_account_id EXCEPT ![w] = None]
          /\ lastOp' = Op("watch_end", Val(watch_account_id[w]), 0, << >>)
    /\ UNCHANGED << now, quietRun, fetchVars, monitorVars, sessionVars >>

NextCache ==
    \/ Tick
    \/ UpdateCache
    \/ AddSender
    \/ ActivateBurst
    \/ CheckBurst
    \/ AdjustTTL
    \/ WatchEnd

SpecCache == InitCache /\ [][NextCache]_vars

(***************************************************************************)
(* Properties of the shared cache, checked under SpecCache.                *)
(***************************************************************************)

\* C1: in every reachable state, burst mode active implies is_cache_valid() is
\* false whatever the age and the TTL; with burst inactive and a snapshot held,
\* it is true iff now - fetchedAt < ttl; and it is false if nothing was ever
\* fetched (no successful update yet) or no snapshot is held.
C1_ValidityContract ==
    /\ smart_cache.burst_mode_active => ~is_cache_valid(smart_cache, now)
    /\ (~smart_cache.burst_mode_active /\ smart_cache.cache # None) =>
          /\ smart_cache.cache_timestamp # None
          /\ is_cache_valid(smart_cache, now)
                <=> (now - Val(smart_cache.cache_timestamp) < smart_cache.cache_ttl)
    /\ smart_cache.last_successful_cache = None => ~is_cache_valid(smart_cache, now)
    /\ smart_cache.cache = None => ~is_cache_valid(smart_cache, now)

\* C1 witness: burst is active over a snapshot younger than the TTL, and the cache reports stale
C1_Witness ==
    /\ smart_cache.burst_mode_active
    /\ smart_cache.cache # None
    /\ smart_cache.cache_timestamp # None
    /\ now - Val(smart_cache.cache_timestamp) < smart_cache.cache_ttl
    /\ ~is_cache_valid(smart_cache, now)

\* C2 (the claim as stated): after update_cache(data, success=False), given an
\* earlier successful update, the current snapshot equals the last good snapshot.
C2_FailedUpdateKeepsLastGood ==
    (lastOp.op = "update_failed" /\ smart_cache.last_successful_cache # None)
        => smart_cache.cache = smart_cache.last_successful_cache

\* C3: over any sequence of adjust_ttl calls, the TTL becomes CACHE_TTL_MAX only
\* at a call that completes a run of at least 3 consecutive calls with 0 or 1
\* changes; a first or second quiet call leaves the TTL as it was; a call with
\* 2 or more changes resets the quiet counter to 0 and sets the TTL to NORMAL
\* (2..4 changes) or MIN (5 or more).
C3_TTLHysteresis ==
    [][ lastOp'.op = "adjust_ttl" =>
          /\ (smart_cache'.cache_ttl = CACHE_TTL_MAX /\ smart_cache.cache_ttl # CACHE_TTL_MAX)
                => (lastOp'.n <= 1 /\ quietRun' = 3)
          /\ (lastOp'.n <= 1 /\ quietRun' < 3)
                => smart_cache'.cache_ttl = smart_cache.cache_ttl
          /\ lastOp'.n >= 2
                => /\ smart_cache'.consecutive_quiet_cycles = 0
                   /\ smart_cache'.cache_ttl =
                         IF lastOp'.n >= 5 THEN CACHE_TTL_MIN ELSE CACHE_TTL_NORMAL
      ]_vars

\* C3 witness: the third quiet call in a row has just raised the TTL to MAX
C3_Witness ==
    /\ lastOp.op = "adjust_ttl"
    /\ lastOp.n <= 1
    /\ quietRun = 3
    /\ smart_cache.consecutive_quiet_cycles = 3
    /\ smart_cache.cache_ttl = CACHE_TTL_MAX

\* C5: activate_burst_mode(id) while burst is active adds id to the target set
\* and leaves the flag and the start timestamp unchanged; while inactive it sets
\* the flag, stamps the start time to now and adds id; nothing else changes, and
\* a second call with the same id (at any later time) changes nothing.
C5_ActivateIdempotent ==
    [][ lastOp'.op = "activate_burst_mode" =>
          /\ smart_cache'.burst_targets = smart_cache.burst_targets \cup {lastOp'.id}
          /\ smart_cache'.burst_mode_active
          /\ smart_cache.burst_mode_active
                => smart_cache'.burst_mode_started = smart_cache.burst_mode_started
          /\ ~smart_cache.burst_mode_active
                => smart_cache'.burst_mode_started = Some(now)
          /\ \A t \in now..MaxNow :
                activate_burst_mode(smart_cache', lastOp'.id, t) = smart_cache'
      ]_vars

\* C5 witness: a second identifier was added to a burst started earlier, the clock not reset
C5_Witness ==
    /\ lastOp.op = "activate_burst_mode"
    /\ smart_cache.burst_mode_active
    /\ smart_cache.burst_mode_started # None
    /\ Val(smart_cache.burst_mode_started) < now
    /\ smart_cache.burst_targets = AccountIds

\* C6 (the claim as stated): the burst flag goes from active to inactive only in
\* the expiry check, with at least BURST_MODE_DURATION elapsed; a watch session
\* that ends removes its identifier and leaves the flag as it is.
C6_DeactivationOnlyByExpiry ==
    [][ (smart_cache.burst_mode_active /\ ~smart_cache'.burst_mode_active)
          => /\ lastOp'.op = "check_burst_mode"
             /\ now - Val(smart_cache.burst_mode_started) >= BURST_MODE_DURATION
      ]_vars

(***************************************************************************)
(* OptimizedAPIManager.fetch_all_accounts_batch (src/api_manager.py).      *)
(* A call suspends twice: while get_csrf_token fetches a credential (when  *)
(* none is cached) and while the batch request is answered.  Between the   *)
(* two, other tasks run.                                                   *)
(***************************************************************************)

\* get_csrf_token answers from its cache, without suspending
csrf_cached(a, t) ==
    /\ a.csrf_token # None
    /\ a.csrf_expires_at # None
    /\ t < Val(a.csrf_expires_at)

\* `smart_cache.get_cache() or []`
get_cache_or_empty(c) == IF Truthy(get_cache(c)) THEN Val(get_cache(c)) ELSE << >>

\* what a call returns, and what it leaves in the cache, once its outcome is known
fetch_return(c, outcome, parsed, t) ==
    CASE outcome = "ok" ->
           [c |-> update_cache(c, parsed, TRUE, t), ret |-> parsed]
      [] outcome \in {"no_csrf", "exception"} ->
           LET c1 == update_cache(c, << >>, FALSE, t)
           IN  [c |-> c1, ret |-> get_cache_or_empty(c1)]
      [] outcome \in {"no_data", "bad_status"} ->
           [c |-> c, ret |-> get_cache_or_empty(c)]

\* what the remote source can answer to the batch request
PostOutcomes == {"ok", "no_data", "bad_status", "csrf_expired", "exception"}

\* the kinds of return of a call that did not obtain a fresh snapshot
FailedFetchOps == {"fetch_no_csrf", "fetch_no_data", "fetch_bad_status", "fetch_exception"}

\* the most batch requests the model lets one call send
MaxPosts == 3

\* the callers whose call was issued before f's and is still in flight
issued_before(fl, f) ==
    { fl.order[i] : i \in { j \in 1..Len(fl.order) : \E k \in (j+1)..Len(fl.order) : fl.order[k] = f } }

\* history: f's call is issued; sent is 1 when it goes straight to the batch request
took_off(fl, f, sent) ==
    [fl EXCEPT !.order = Append(@, f), !.posts[f] = sent]

\* history: f's call returns; a success overtakes the calls issued before it
\* and ends the wait that add_sender's invalidation started
landed(fl, f, success) ==
    [fl EXCEPT !.order = SelectSeq(@, LAMBDA g : g # f),
               !.overtaken = IF success THEN (@ \ {f}) \cup issued_before(fl, f) ELSE @ \ {f},
               !.posts[f] = 0,
               !.invalidated = IF success THEN FALSE ELSE @]

\* 1 when a call issued after f's completed with a snapshot while f's was in flight
Overtaken(fl, f) == IF f \in fl.overtaken THEN 1 ELSE 0

\* fetch_all_accounts_batch(): the cache check, then the credential
FetchCall(f) ==
    /\ fetchers[f] = "idle"
    /\ IF is_cache_valid(smart_cache, now) /\ Truthy(get_cache(smart_cache))
       THEN /\ lastOp' = Op("fetch_hit", f, 0, Val(get_cache(smart_cache)))
            /\ UNCHANGED << fetchers, flight >>
       ELSE /\ fetchers' = [fetchers EXCEPT ![f] = IF csrf_cached(api, now) THEN "post" ELSE "csrf"]
            /\ flight' = took_off(flight, f, IF csrf_cached(api, now) THEN 1 ELSE 0)
            /\ lastOp' = Op("fetch_call", f, 0, << >>)
    /\ UNCHANGED << smart_cache, now, api, watch_account_id, sessionVars, quietRun, monitorVars >>

\* get_csrf_token's request is answered: a credential, or none
CsrfReply(f) ==
    /\ fetchers[f] = "csrf"
    /\ \E got \in BOOLEAN :
          IF got
          THEN /\ api' = [csrf_token |-> Some("csrf"), csrf_expires_at |-> Some(now + CSRF_TOKEN_TTL)]
               /\ fetchers' = [fetchers EXCEPT ![f] = "post"]
               /\ flight' = [flight EXCEPT !.posts[f] = @ + 1]
               /\ lastOp' = Op("csrf_ok", f, 0, << >>)
               /\ UNCHANGED smart_cache
          ELSE /\ smart_cache' = fetch_return(smart_cache, "no_csrf", << >>, now).c
               /\ fetchers' = [fetchers EXCEPT ![f] = "idle"]
               /\ flight' = landed(flight, f, FALSE)
               /\ lastOp' = Op("fetch_no_csrf", f, Overtaken(flight, f),
                               fetch_return(smart_cache, "no_csrf", << >>, now).ret)
               /\ UNCHANGED api
    /\ UNCHANGED << now, watch_account_id, sessionVars, quietRun, monitorVars >>

\* the batch request is answered
PostReply(f) ==
    /\ fetchers[f] = "post"
    /\ \E outcome \in PostOutcomes, parsed \in FetchedSnapshots :
          CASE outcome = "csrf_expired" ->
                 \* 403/419: drop the credential and call again with force_refresh
                 /\ flight.posts[f] < MaxPosts
                 /\ api' = [api EXCEPT !.csrf_token = None]
                 /\ fetchers' = [fetchers EXCEPT ![f] = "csrf"]
                 /\ lastOp' = Op("fetch_retry", f, flight.posts[f], << >>)
                 /\ UNCHANGED << smart_cache, flight >>
            [] OTHER ->
                 /\ smart_cache' = fetch_return(smart_cache, outcome, parsed, now).c
                 /\ fetchers' = [fetchers EXCEPT ![f] = "idle"]
                 /\ flight' = landed(flight, f, outcome = "ok")
                 /\ lastOp' = Op("fetch_" \o outcome, f, Overtaken(flight, f),
                                 fetch_return(smart_cache, outcome, parsed, now).ret)
                 /\ UNCHANGED api
    /\ UNCHANGED << now, watch_account_id, sessionVars, quietRun, monitorVars >>

\* the same for add_sender's cache invalidation, with calls in flight
AddSenderDuringFetch ==
    /\ smart_cache' = invalidate_cache(smart_cache)
    /\ flight' = [flight EXCEPT !.invalidated = TRUE]
    /\ lastOp' = Op("add_sender", "", 0, << >>)
    /\ UNCHANGED << now, api, fetchers, watch_account_id, sessionVars, quietRun, monitorVars >>

TickDuringFetch ==
    /\ \E d \in ClockSteps :
          /\ now + d <= MaxNow
          /\ now' = now + d
    /\ lastOp' = Op("tick", "", 0, << >>)
    /\ UNCHANGED << smart_cache, fetchVars, watch_account_id, sessionVars, quietRun, monitorVars >>

NextFetch ==
    \/ \E f \in Callers : FetchCall(f)
    \/ \E f \in Callers : CsrfReply(f)
    \/ \E f \in Callers : PostReply(f)
    \/ AddSenderDuringFetch
    \/ TickDuringFetch

SpecFetch == InitCache /\ [][NextFetch]_vars

\* C8 (the claim as stated): whenever a snapshot fetch fails (no credential,
\* exception, non-200 response, 200 without data) and a last good snapshot
\* exists, the call returns the last good snapshot and leaves the cache
\* pointing at it.  Stated for a non-empty last good snapshot, the reading
\* the most favourable to the claim.
C8_FailedFetchReturnsLastGood ==
    (lastOp.op \in FailedFetchOps /\ Truthy(smart_cache.last_successful_cache))
        => /\ lastOp.data = Val(smart_cache.last_successful_cache)
           /\ smart_cache.cache = smart_cache.last_successful_cache

(***************************************************************************)
(* The tracked-record store and the reconciliation loop (src/core.py).     *)
(***************************************************************************)

\* bounds of the reconciliation model
MaxRemoteChanges == 2
MaxAdmissions == 1
MaxCycles == 2

\* the configured target group (config: website.defaults.group_name)
default_group_name == "G"

\* str.upper() and str.lower() on the strings of the model
UpperTable == ("available" :> "AVAILABLE")
Upper(str) == IF str \in DOMAIN UpperTable THEN UpperTable[str] ELSE str
LowerTable == ("A@x.com" :> "a@x.com")
Lower(str) == IF str \in DOMAIN LowerTable THEN LowerTable[str] ELSE str

\* float(): the strings that parse, with their values; any other string raises ValueError
FloatTable == ("0" :> 0) @@ ("1500" :> 1500)
float_parses(str) == str \in DOMAIN FloatTable

\* what the remote source lists at first: a record of the target group and one of
\* another group; an identifier listed twice; a record without identifier
RemoteLayouts ==
    { << Rec("7", "A@x.com", "LOGGING", "G", "0"), Rec("8", "b@x.com", "LOGGING", "OTHER", "0") >>,
      << Rec("7", "A@x.com", "LOGGING", "G", "0"), Rec("7", "A@x.com", "LOGGING", "G", "0") >>,
      << Rec("", "c@x.com", "AVAILABLE", "G", "0"), Rec("8", "b@x.com", "LOGGING", "G", "0") >> }

\* the (Status, Taken) pairs a remote record moves to
StatusUpdates ==
    { << "AVAILABLE", "0" >>, << "available", "0" >>, << "LOGGING", "0" >>,
      << "AMOUNT TAKEN", "1500" >>, << "AMOUNT TAKEN", "" >> }

\* the chat of the user who starts a watch session, and the first admin's chat
UserChats == {555}
AdminChats == {100}

\* outcomes of one read / one write of monitored_accounts.json
IOOutcomes == IF ioFaulty THEN BOOLEAN ELSE {TRUE}

Min(S) == CHOOSE x \in S : \A y \in S : x <= y
Max(S) == CHOOSE x \in S : \A y \in S : x >= y

\* one value of the tracked-record mapping, with the key it is stored under
TrackedEntry(email, account_id, status, chat_id, source, t) ==
    [ key |-> account_id \o "_" \o email,
      email |-> email,
      account_id |-> account_id,
      last_known_status |-> status,
      chat_id |-> chat_id,
      source |-> source,
      added_at |-> t,
      last_check |-> t ]

\* accounts[key] = value on a dict that keeps insertion order
DictPut(accounts, e) ==
    IF \E i \in 1..Len(accounts) : accounts[i].key = e.key
    THEN [accounts EXCEPT ![CHOOSE i \in 1..Len(accounts) : accounts[i].key = e.key] = e]
    ELSE Append(accounts, e)

Keys(accounts) == {accounts[i].key : i \in 1..Len(accounts)}

load_monitored_accounts(file, read_ok) == IF read_ok THEN file ELSE << >>

save_monitored_accounts(file, accounts, write_ok) == IF write_ok THEN accounts ELSE file

add_monitored_account(file, email, account_id, status, chat_id, source, t, read_ok, write_ok) ==
    LET accounts == load_monitored_accounts(file, read_ok)
    IN  save_monitored_accounts(
            file, DictPut(accounts, TrackedEntry(email, account_id, status, chat_id, source, t)), write_ok)

update_monitored_account_status(file, account_id, new_status, t, read_ok, write_ok) ==
    LET accounts == load_monitored_accounts(file, read_ok)
        hits == {i \in 1..Len(accounts) : accounts[i].account_id = account_id}
    IN  IF hits = {} THEN file
        ELSE save_monitored_accounts(
                 file,
                 [accounts EXCEPT ![Min(hits)].last_known_status = new_status,
                                  ![Min(hits)].last_check = t],
                 write_ok)

\* an enqueue that keeps the entry already waiting for the identifier
add_to_taken_queue_appending(items, account_id, email, status, taken_value) ==
    Append(items, [id |-> account_id, email |-> email, status |-> status, taken |-> taken_value])

\* clear_taken_entry: the worker is done with the identifier
clear_taken_entry(items, account_id) ==
    SelectSeq(items, LAMBDA item : item.id # account_id)

\* add_to_taken_queue: one entry per identifier, the latest value wins
add_to_taken_queue(items, account_id, email, status, taken_value) ==
    Append(SelectSeq(items, LAMBDA item : item.id # account_id),
           [id |-> account_id, email |-> email, status |-> status, taken |-> taken_value])

\* accounts_by_id.get(account_id): the last record listed under the identifier
accounts_by_id(all_accounts, account_id) ==
    LET hits == {i \in 1..Len(all_accounts) :
                   all_accounts[i].idAccount # "" /\ all_accounts[i].idAccount = account_id}
    IN  IF hits = {} THEN None ELSE Some(all_accounts[Max(hits)])

\* a discovery test that forgets which identifiers are tracked
auto_discoverable_untracked(account, existing_ids) ==
    /\ account.idAccount # ""
    /\ Upper(account.Status) = "AVAILABLE"
    /\ account.Group = default_group_name

\* the discovery loop's test: the record is skipped unless this holds
auto_discoverable(account, existing_ids) ==
    /\ account.idAccount # ""
    /\ account.idAccount \notin existing_ids
    /\ Upper(account.Status) = "AVAILABLE"
    /\ account.Group = default_group_name

\* a notification that is sent whatever the target
send_status_notification_unguarded(chat_id) == TRUE

\* send_status_notification: a message is sent unless `not chat_id`
send_status_notification(chat_id) == chat_id # 0

\* str.replace(" ", "_") on the extraction statuses
status_normalized(status) == IF status = "AMOUNT TAKEN" THEN "AMOUNT_TAKEN" ELSE status

\* the band the next cycle delay is drawn from
cycle_delay_band(accounts) ==
    LET statuses == {accounts[i].last_known_status : i \in 1..Len(accounts)}
    IN  IF "LOGGING" \in statuses THEN "10-20"
        ELSE IF "AVAILABLE" \in statuses \/ "ACTIVE" \in statuses THEN "30-60"
        ELSE "60-120"

Event(kind, e, old, new, taken) ==
    [ kind |-> kind, key |-> e.key, account_id |-> e.account_id, email |-> e.email,
      chat_id |-> e.chat_id, source |-> e.source, old |-> old, new |-> new, taken |-> taken ]

(***************************************************************************)
(* continuous_monitor.  The loop suspends while the batch is fetched,      *)
(* while a notification is sent and while it sleeps; the code between two  *)
(* suspensions runs without interruption, so the steps "discover" and      *)
(* "loop" below admit no step of another task in between.                  *)
(***************************************************************************)
\* a record of monitored_accounts.json that has no "last_known_status" (the file
\* is read back without validation): data["last_known_status"] raises KeyError
MissingStatus == "<missing>"

\* `statuses = [d["last_known_status"] for d in accounts.values()]` raises, outside
\* the per-record try
delay_raises(accounts) ==
    \E i \in 1..Len(accounts) : accounts[i].last_known_status = MissingStatus

\* an exception that ends the loop instead of the cycle
cycle_error_unhandled(m) == [m EXCEPT !.pc = "crashed"]

\* `except Exception as e: logger.exception(...); await asyncio.sleep(30)`
cycle_error_handler(m) == [m EXCEPT !.pc = "cooldown"]

\* the delays a cycle sleeps for: 30 (nothing tracked), and values of the three bands
SleepSteps == {30, 60, 120}

MonitorFetchOutcomes == {"ok", "no_csrf", "no_data", "bad_status", "exception"}

SuspensionPoints == {"fetching", "notify", "sleep"}

\* the model follows the loop until its last cycle goes to sleep
Running == mon.pc # "sleep" \/ budget.cycles < MaxCycles

MonOp(name) == Op(name, "", 0, << >>)

\* accounts = load_monitored_accounts(); all_accounts = await fetch_all_accounts_batch()
MonitorCycleStart ==
    /\ mon.pc = "start"
    /\ budget.cycles < MaxCycles
    /\ \E read_ok \in IOOutcomes :
          LET accounts == load_monitored_accounts(monitored, read_ok)
              hit == is_cache_valid(smart_cache, now) /\ Truthy(get_cache(smart_cache))
          IN  mon' = [ pc |-> IF hit THEN "discover" ELSE "fetching",
                       accounts |-> accounts,
                       all_accounts |-> IF hit THEN Val(get_cache(smart_cache)) ELSE << >>,
                       prev_all_accounts |-> IF budget.cycles > 0 THEN Some(mon.all_accounts) ELSE None,
                       prev_log |-> cycleLog,
                       existing_ids |-> {accounts[i].account_id : i \in 1..Len(accounts)} \ {""},
                       auto_added |-> FALSE, j |-> 1, idx |-> 1,
                       changes_detected |-> 0, cycle_delay |-> "",
                       fetched |-> IF hit THEN "hit" ELSE "" ]
    /\ budget' = [budget EXCEPT !.cycles = @ + 1]
    /\ cycleLog' = << >>
    /\ lastOp' = MonOp("cycle_start")
    /\ UNCHANGED << smart_cache, now, fetchVars, remote, monitored, taken_queue,
                    default_chat_id, ioFaulty, watch_account_id, sessionVars, quietRun >>

\* the batch call returns: a fresh snapshot, or what the cache falls back to
MonitorFetchReturn ==
    /\ mon.pc = "fetching"
    /\ \E outcome \in MonitorFetchOutcomes :
          LET r == fetch_return(smart_cache, outcome, remote, now)
          IN  /\ smart_cache' = r.c
              /\ mon' = [mon EXCEPT !.pc = "discover", !.all_accounts = r.ret,
                                    !.fetched = IF outcome = "ok" THEN "ok" ELSE "failed"]
    /\ lastOp' = MonOp("fetch_return")
    /\ UNCHANGED << now, fetchVars, remote, monitored, taken_queue, default_chat_id,
                    ioFaulty, budget, cycleLog, watch_account_id, sessionVars, quietRun >>

\* one pass of the auto-discovery loop, over all_accounts[j]
MonitorDiscover ==
    /\ mon.pc = "discover"
    /\ mon.j <= Len(mon.all_accounts)
    /\ LET account == mon.all_accounts[mon.j]
           chat_id == IF default_chat_id = None THEN 0 ELSE Val(default_chat_id)
           e == TrackedEntry(account.Sender, account.idAccount, "AVAILABLE", chat_id, "manual", now)
       IN  IF auto_discoverable(account, mon.existing_ids)
           THEN /\ UNCHANGED budget
                /\ \E read_ok \in IOOutcomes, write_ok \in IOOutcomes :
                      monitored' = add_monitored_account(
                          monitored, account.Sender, account.idAccount, "AVAILABLE",
                          chat_id, "manual", now, read_ok, write_ok)
                /\ mon' = [mon EXCEPT !.existing_ids = @ \cup {account.idAccount},
                                      !.auto_added = TRUE, !.j = @ + 1]
                /\ cycleLog' = Append(cycleLog, Event("add", e, "", "AVAILABLE", ""))
                /\ lastOp' = Op("discover_add", account.idAccount, mon.j, << >>)
           ELSE /\ mon' = [mon EXCEPT !.j = @ + 1]
                /\ lastOp' = Op("discover_skip", account.idAccount, mon.j, << >>)
                /\ UNCHANGED << monitored, cycleLog, budget >>
    /\ UNCHANGED << smart_cache, now, fetchVars, remote, taken_queue, default_chat_id,
                    ioFaulty, watch_account_id, sessionVars, quietRun >>

\* after the discovery loop: reload if anything was added; sleep if nothing is tracked
MonitorDiscoverDone ==
    /\ mon.pc = "discover"
    /\ mon.j > Len(mon.all_accounts)
    /\ \E read_ok \in IOOutcomes :
          LET accounts == IF mon.auto_added
                          THEN load_monitored_accounts(monitored, read_ok)
                          ELSE mon.accounts
          IN  mon' = [mon EXCEPT !.accounts = accounts,
                                 !.pc = IF accounts = << >> THEN "sleep" ELSE "loop",
                                 !.idx = 1, !.changes_detected = 0]
    /\ lastOp' = MonOp("discover_done")
    /\ UNCHANGED << smart_cache, now, fetchVars, remote, monitored, taken_queue,
                    default_chat_id, ioFaulty, budget, cycleLog, watch_account_id, sessionVars, quietRun >>

\* one pass of the loop over list(accounts.items()), up to the notification's await
MonitorCheckAccount ==
    /\ mon.pc = "loop"
    /\ mon.idx <= Len(mon.accounts)
    /\ LET data == mon.accounts[mon.idx]
           found == accounts_by_id(mon.all_accounts, data.account_id)
       IN  IF data.account_id = "" \/ found = None
           THEN /\ mon' = [mon EXCEPT !.idx = @ + 1]
                /\ lastOp' = Op("check_absent", data.key, mon.idx, << >>)
                /\ UNCHANGED << monitored, taken_queue, cycleLog >>
           ELSE IF data.last_known_status = MissingStatus
           THEN /\ mon' = [mon EXCEPT !.idx = @ + 1]
                /\ cycleLog' = Append(cycleLog, Event("error", data, "", "", ""))
                /\ lastOp' = Op("check_error", data.key, mon.idx, << >>)
                /\ UNCHANGED << monitored, taken_queue >>
           ELSE LET account_info == Val(found)
                    current_status == Upper(account_info.Status)
                    last_status == Upper(data.last_known_status)
                    taken_value == account_info.Taken
                    enqueue == /\ current_status \in {"AMOUNT TAKEN", "DISABLED"}
                               /\ float_parses(taken_value)
                               /\ FloatTable[taken_value] > 0
                    notify == send_status_notification(data.chat_id)
                    log1 == IF enqueue
                            THEN Append(cycleLog, Event("taken", data, last_status, current_status, taken_value))
                            ELSE cycleLog
                IN  /\ \E read_ok \in IOOutcomes, write_ok \in IOOutcomes :
                          monitored' = update_monitored_account_status(
                              monitored, data.account_id, current_status, now, read_ok, write_ok)
                    /\ IF current_status # last_status
                       THEN /\ taken_queue' =
                                  IF enqueue
                                  THEN add_to_taken_queue(taken_queue, data.account_id, data.email,
                                                          status_normalized(current_status), taken_value)
                                  ELSE taken_queue
                            /\ cycleLog' =
                                  IF notify
                                  THEN Append(log1, Event("notify", data, last_status, current_status, ""))
                                  ELSE log1
                            /\ mon' = [mon EXCEPT !.changes_detected = @ + 1,
                                                  !.pc = IF notify THEN "notify" ELSE "loop",
                                                  !.idx = IF notify THEN @ ELSE @ + 1]
                            /\ lastOp' = Op("check_changed", data.key, mon.idx, << >>)
                       ELSE /\ mon' = [mon EXCEPT !.idx = @ + 1]
                            /\ lastOp' = Op("check_unchanged", data.key, mon.idx, << >>)
                            /\ UNCHANGED << taken_queue, cycleLog >>
    /\ UNCHANGED << smart_cache, now, fetchVars, remote, default_chat_id, ioFaulty, budget,
                    watch_account_id, sessionVars, quietRun >>

\* telegram_bot.send_message returns (or raises, which is logged): the loop goes on
MonitorNotified ==
    /\ mon.pc = "notify"
    /\ mon' = [mon EXCEPT !.pc = "loop", !.idx = @ + 1]
    /\ lastOp' = MonOp("notified")
    /\ UNCHANGED << smart_cache, now, fetchVars, remote, monitored, taken_queue,
                    default_chat_id, ioFaulty, budget, cycleLog, watch_account_id, sessionVars, quietRun >>

\* after the loop: adjust_ttl(changes_detected), then the delay of the next cycle
MonitorCycleEnd ==
    /\ mon.pc = "loop"
    /\ mon.idx > Len(mon.accounts)
    /\ smart_cache' = adjust_ttl(smart_cache, mon.changes_detected)
    /\ IF delay_raises(mon.accounts)
       THEN /\ mon' = cycle_error_handler(mon)
            /\ budget' = [budget EXCEPT !.errors = IF @ < MaxCycles THEN @ + 1 ELSE @]
            /\ lastOp' = MonOp("cycle_error")
       ELSE /\ mon' = [mon EXCEPT !.pc = "sleep", !.cycle_delay = cycle_delay_band(mon.accounts)]
            /\ lastOp' = MonOp("cycle_end")
            /\ UNCHANGED budget
    /\ UNCHANGED << now, fetchVars, remote, monitored, taken_queue, default_chat_id,
                    ioFaulty, cycleLog, watch_account_id, sessionVars, quietRun >>

\* await asyncio.sleep(...): time passes, then the next cycle
MonitorSleep ==
    /\ mon.pc = "sleep"
    /\ Running
    /\ \E d \in SleepSteps :
          /\ now + d <= MaxNow
          /\ now' = now + d
    /\ mon' = [mon EXCEPT !.pc = "start"]
    /\ lastOp' = MonOp("sleep")
    /\ UNCHANGED << smart_cache, fetchVars, remote, monitored, taken_queue, default_chat_id,
                    ioFaulty, budget, cycleLog, watch_account_id, sessionVars, quietRun >>

\* the remote source moves a record to another status; the loop reads the source
\* only when a request of its own or of a watch session is answered, so the
\* changes are placed where the loop is suspended
RemoteChange ==
    /\ mon.pc \in SuspensionPoints
    /\ Running
    /\ budget.changes < MaxRemoteChanges
    /\ \E i \in 1..Len(remote), u \in StatusUpdates :
          /\ remote[i].idAccount # ""
          /\ << remote[i].Status, remote[i].Taken >> # u
          /\ remote' = [remote EXCEPT ![i].Status = u[1], ![i].Taken = u[2]]
    /\ budget' = [budget EXCEPT !.changes = @ + 1]
    /\ lastOp' = MonOp("remote_change")
    /\ UNCHANGED << smart_cache, now, fetchVars, monitored, taken_queue, default_chat_id,
                    ioFaulty, mon, cycleLog, watch_account_id, sessionVars, quietRun >>

\* a watch session, run while the loop is suspended, ends on AVAILABLE in the target
\* group and admits the record under the user's lowercased key
WatchAdmit ==
    /\ mon.pc \in SuspensionPoints
    /\ Running
    /\ budget.admissions < MaxAdmissions
    /\ \E i \in 1..Len(remote), chat_id \in UserChats,
          read_ok \in IOOutcomes, write_ok \in IOOutcomes :
          /\ remote[i].idAccount # ""
          /\ Upper(remote[i].Status) = "AVAILABLE"
          /\ remote[i].Group = default_group_name
          /\ monitored' = add_monitored_account(
                 monitored, Lower(remote[i].Sender), remote[i].idAccount, "AVAILABLE",
                 chat_id, "bot", now, read_ok, write_ok)
          /\ lastOp' = Op("watch_admit", remote[i].idAccount, 0, << >>)
    /\ budget' = [budget EXCEPT !.admissions = @ + 1]
    /\ UNCHANGED << smart_cache, now, fetchVars, remote, taken_queue, default_chat_id,
                    ioFaulty, mon, cycleLog, watch_account_id, sessionVars, quietRun >>

NextMonitor ==
    \/ MonitorCycleStart
    \/ MonitorFetchReturn
    \/ MonitorDiscover
    \/ MonitorDiscoverDone
    \/ MonitorCheckAccount
    \/ MonitorNotified
    \/ MonitorCycleEnd
    \/ MonitorSleep
    \/ RemoteChange
    \/ WatchAdmit

InitMonitor ==
    /\ smart_cache = SmartCacheManager_init
    /\ InitFetch
    /\ now = 0
    /\ watch_account_id = [w \in Sessions |-> None]
    /\ InitSession
    /\ quietRun = 0
    /\ lastOp = MonOp("init")
    /\ remote \in RemoteLayouts
    /\ monitored = << >>
    /\ taken_queue = << >>
    /\ default_chat_id \in {None} \cup {Some(c) : c \in AdminChats}
    /\ mon = MonitorIdle
    /\ budget = [changes |-> 0, admissions |-> 0, cycles |-> 0, errors |-> 0]
    /\ cycleLog = << >>

InitMonitorReliable == InitMonitor /\ ioFaulty = FALSE

\* a tracked record and one that becomes discoverable later
DroppingLayouts ==
    { << Rec("7", "A@x.com", "AVAILABLE", "G", "0"), Rec("8", "b@x.com", "LOGGING", "G", "0") >> }

InitMonitorIO ==
    /\ smart_cache = SmartCacheManager_init
    /\ InitFetch
    /\ now = 0
    /\ watch_account_id = [w \in Sessions |-> None]
    /\ InitSession
    /\ quietRun = 0
    /\ lastOp = Op("init", "", 0, << >>)
    /\ remote \in RemoteLayouts \cup DroppingLayouts
    /\ monitored = << >>
    /\ taken_queue = << >>
    /\ default_chat_id \in {None} \cup {Some(c) : c \in AdminChats}
    /\ mon = MonitorIdle
    /\ budget = [changes |-> 0, admissions |-> 0, cycles |-> 0, errors |-> 0]
    /\ cycleLog = << >>
    /\ ioFaulty = TRUE

\* the loop with a store that always reads and writes
SpecMonitor == InitMonitorReliable /\ [][NextMonitor]_vars

\* the remote source stops listing a record
RemoteRemove ==
    /\ mon.pc \in SuspensionPoints
    /\ Running
    /\ budget.changes < MaxRemoteChanges
    /\ \E i \in 1..Len(remote) :
          remote' = [k \in 1..(Len(remote) - 1) |-> IF k < i THEN remote[k] ELSE remote[k + 1]]
    /\ budget' = [budget EXCEPT !.changes = @ + 1]
    /\ lastOp' = MonOp("remote_remove")
    /\ UNCHANGED << smart_cache, now, fetchVars, monitored, taken_queue, default_chat_id,
                    ioFaulty, mon, cycleLog, watch_account_id, sessionVars, quietRun >>

NextMonitorIO ==
    \/ NextMonitor
    \/ RemoteRemove

\* the loop with a store whose reads and writes may fail, and a remote source
\* that may drop records
SpecMonitorIO == InitMonitorIO /\ [][NextMonitorIO]_vars

(***************************************************************************)
(* Properties of the reconciliation loop.                                  *)
(***************************************************************************)

\* the entries of the cycle's mapping that the loop has gone through
Processed == {i \in 1..Len(mon.accounts) :
                 i < mon.idx \/ (mon.pc = "notify" /\ i = mon.idx)}

\* the events of one kind logged in this cycle for one key of the mapping
EventsOf(kind, key) ==
    {k \in 1..Len(cycleLog) : cycleLog[k].kind = kind /\ cycleLog[k].key = key}

\* the entry was found in the snapshot, and with which status
FoundInSnapshot(data) ==
    data.account_id # "" /\ accounts_by_id(mon.all_accounts, data.account_id) # None

SnapshotStatus(data) == Upper(Val(accounts_by_id(mon.all_accounts, data.account_id)).Status)

\* C4 (the claim as stated): in every cycle, for every tracked record found in
\* the snapshot, an unchanged status (compared case-insensitively) gives no
\* notification and no extraction item, and a changed status gives exactly one
\* notification, for system-discovered records with the default target as well.
C4_OneNotificationPerChange ==
    \A i \in Processed :
        LET data == mon.accounts[i]
        IN  FoundInSnapshot(data) =>
              IF SnapshotStatus(data) = Upper(data.last_known_status)
              THEN EventsOf("notify", data.key) = {} /\ EventsOf("taken", data.key) = {}
              ELSE Cardinality(EventsOf("notify", data.key)) = 1

\* C4 (amended): as above, but a changed status gives exactly one notification
\* when the record's notify target is non-zero and none when it is 0, which is
\* the target of a system-discovered record when no default chat is configured.
C4_OneNotificationPerChangeWithTarget ==
    \A i \in Processed :
        LET data == mon.accounts[i]
        IN  FoundInSnapshot(data) =>
              IF SnapshotStatus(data) = Upper(data.last_known_status)
              THEN EventsOf("notify", data.key) = {} /\ EventsOf("taken", data.key) = {}
              ELSE Cardinality(EventsOf("notify", data.key)) =
                       IF data.chat_id # 0 THEN 1 ELSE 0

\* C4 witness: the loop went through a system-discovered record with target 0
\* whose status changed, and through no notification for it
C4_Witness ==
    \E i \in Processed :
        /\ FoundInSnapshot(mon.accounts[i])
        /\ SnapshotStatus(mon.accounts[i]) # Upper(mon.accounts[i].last_known_status)
        /\ mon.accounts[i].source = "manual"
        /\ mon.accounts[i].chat_id = 0
        /\ EventsOf("notify", mon.accounts[i].key) = {}
        /\ mon.changes_detected >= 1

\* C7 (the claim as stated): no operation of the core removes a persisted
\* tracked record, reads of the store that fail included: every key of the
\* store before a step is a key of the store after it.
C7_NeverRemoved ==
    [][ Keys(monitored) \subseteq Keys(monitored') ]_vars

\* the identifiers of the records in the store
TrackedIds == {monitored[i].account_id : i \in 1..Len(monitored)}

\* C9 (the claim as stated): in the discovery step a snapshot record is
\* auto-tracked if and only if its identifier is non-empty and not already
\* tracked, its status is AVAILABLE and its group is the target group; the
\* record added has origin system-discovered ("manual") and status AVAILABLE.
C9_DiscoveryRule ==
    [][ lastOp'.op \in {"discover_add", "discover_skip"} =>
          LET account == mon.all_accounts[mon.j]
          IN  /\ (lastOp'.op = "discover_add") <=>
                    /\ account.idAccount # ""
                    /\ account.idAccount \notin TrackedIds
                    /\ Upper(account.Status) = "AVAILABLE"
                    /\ account.Group = default_group_name
              /\ lastOp'.op = "discover_add" =>
                    \E k \in 1..Len(monitored') :
                        /\ monitored'[k].account_id = account.idAccount
                        /\ monitored'[k].source = "manual"
                        /\ monitored'[k].last_known_status = "AVAILABLE"
      ]_vars

\* the discovery events logged in this cycle
Adds == {k \in 1..Len(cycleLog) : cycleLog[k].kind = "add"}

\* C10: discovery is idempotent.  At the end of a discovery pass no record of
\* the snapshot passes the discovery test any more, so a second pass in the same
\* cycle adds nothing; a cycle whose snapshot is the one of the cycle before
\* adds nothing; an identifier listed several times is added at most once in a
\* pass and has at most one system-discovered record in the store.
C10_DiscoveryIdempotent ==
    /\ (mon.pc = "discover" /\ mon.j > Len(mon.all_accounts))
          => \A i \in 1..Len(mon.all_accounts) :
                 ~auto_discoverable(mon.all_accounts[i], mon.existing_ids)
    /\ mon.prev_all_accounts = Some(mon.all_accounts) => Adds = {}
    /\ \A k1, k2 \in Adds :
          cycleLog[k1].account_id = cycleLog[k2].account_id => k1 = k2
    /\ \A id \in TrackedIds :
          Cardinality({i \in 1..Len(monitored) :
                         monitored[i].account_id = id /\ monitored[i].source = "manual"}) <= 1

\* C10 witness: the second cycle runs over the snapshot of the first, which
\* lists a record of the target group that the first cycle added, and has
\* just skipped that record
C10_Witness ==
    /\ lastOp.op = "discover_skip"
    /\ mon.prev_all_accounts = Some(mon.all_accounts)
    /\ auto_discoverable_untracked(mon.all_accounts[lastOp.n], {})
    /\ \E i \in 1..Len(monitored) :
          /\ monitored[i].account_id = lastOp.id
          /\ monitored[i].source = "manual"
    /\ Adds = {}

(***************************************************************************)
(* wait_for_status_change (src/core.py), one call followed step by step.   *)
(* The call suspends at every lookup, at every edit of the progress        *)
(* message and at every sleep; what the lookups return and whether a call  *)
(* raises is the environment's choice.                                     *)
(***************************************************************************)

\* Phase A makes range(1, 15) attempts, Phase B max_attempts
PhaseAAttempts == 14
max_attempts == 40

FINAL_STATUSES ==
    { "AVAILABLE", "ACTIVE", "WRONG DETAILS", "BACKUP CODE WRONG", "CODE SENT", "DISABLED",
      "NO TRANSFER ACCESS", "TRANSFER LIST IS FULL", "NO CLUB", "GENERAL LOGIN ERROR",
      "ERROR", "BLOCKED", "AMOUNT TAKEN" }

TRANSITIONAL_STATUSES == { "LOGGING", "LOGGED", "LOGGED IN", "WAITING", "NEW ACCOUNT" }

\* the pauses of Phase B, in tenths of a second: asyncio.sleep(2.0) after a
\* missing record or an exception, BURST_MODE_INTERVAL, and 4.0 / 5.0 otherwise
short_pause == 20
BURST_MODE_INTERVAL == 25
transitional_interval == 40
default_interval == 50

\* the remote source changes the status of the watched record at most this often
\* during one session
MaxStatusChanges == 2

\* the caller's arguments: the lowercased e-mail and the chat of the request
watch_email == "a@x.com"
watch_chat_id == CHOOSE c \in UserChats : TRUE

\* the records a lookup can return for the session's e-mail or identifier
LookupRecords ==
    { Rec("7", "A@x.com", st, g, "0") :
        st \in {"LOGGING", "AVAILABLE", "available", "WRONG DETAILS"},
        g \in {default_group_name, "OTHER"} }

\* a record listed before the remote source has given it an identifier
RecordWithoutId == Rec("", "A@x.com", "LOGGING", default_group_name, "0")

\* the step a call ends with: a value, or an exception (not caught where "escape")
CallOutcomes == {"value", "raise"}

\* the clock moves in units longer than one sleep of the session
SessionClockSteps == {0} \cup ClockSteps

\* a Phase A test that takes any record as a hit
phase_a_hit_any(account_info) == account_info # None

\* `if account_info: account_id = account_info.get("idAccount"); if account_id:`
phase_a_hit(account_info) ==
    /\ account_info # None
    /\ Val(account_info).idAccount # ""

\* the admission test of both ends of Phase B, on the record the session holds
admission_policy(account_info) ==
    /\ account_info # None
    /\ Upper(Val(account_info).Status) = "AVAILABLE"
    /\ Val(account_info).Group = default_group_name

\* the end of a session that holds an identifier: admission, burst cancelled, return
session_end(w, kind, admit) ==
    [w EXCEPT !.pc = "done", !.result = kind, !.admitted = admit,
              !.ret_success = (w.account_info # None),
              !.ret_record = w.account_info]

\* mutant: the item is written with the e-mail only
add_to_pending_queue_email_only(items, email, account_id) ==
    Append(items, [email |-> email, id |-> ""])

\* data["emails"].append({"email": email, "id": account_id, ...}), then the file is written
add_to_pending_queue_immediately(items, email, account_id) ==
    Append(items, [email |-> email, id |-> account_id])

\* `if status != last_status:` the change is recorded, a change from a known
\* status to a final one counts as a fast detection
track_status(w, status) ==
    IF Some(status) # w.last_status
    THEN [w EXCEPT !.status_changes = Append(@, status),
                   !.fast_detections =
                       IF w.last_status # None /\ status \in FINAL_STATUSES THEN @ + 1 ELSE @,
                   !.last_status = Some(status)]
    ELSE w

\* mutant: a missing record is sampled with the default status
disappeared_as_sample(w) ==
    [track_status(w, "UNKNOWN") EXCEPT !.pc = "b_sleep", !.account_info = None,
                                       !.pause = short_pause]

\* `if not account_info:` warning, asyncio.sleep(2.0), continue
disappeared(w) ==
    [w EXCEPT !.pc = "b_sleep", !.account_info = None, !.pause = short_pause]

\* the interval after a status that is not final
interval(c, status) ==
    IF c.burst_mode_active THEN BURST_MODE_INTERVAL
    ELSE IF status \in TRANSITIONAL_STATUSES THEN transitional_interval
    ELSE default_interval

WatchOp(name) == Op(name, ws.account_id, ws.initial_attempt + ws.attempt, << >>)

\* Phase A: search_sender_by_email returns (or raises); on a hit the burst is
\* activated and the external-sync item written, and Phase B starts
WatchLookupA ==
    /\ ws.pc = "a_lookup"
    /\ \E o \in CallOutcomes, found \in {None, Some(RecordWithoutId)} \cup {Some(r) : r \in LookupRecords},
          pending_ok \in BOOLEAN :
          IF o = "raise"
          THEN /\ found = None /\ pending_ok
               /\ ws' = [ws EXCEPT !.pc = "done", !.result = "raised"]
               /\ lastOp' = WatchOp("a_lookup_raised")
               /\ UNCHANGED << smart_cache, pending_queue >>
          ELSE IF phase_a_hit(found)
          THEN LET id == Val(found).idAccount
               IN  /\ smart_cache' =
                         IF pending_ok
                         THEN check_burst_mode(activate_burst_mode(smart_cache, id, now), now)
                         ELSE activate_burst_mode(smart_cache, id, now)
                   /\ pending_queue' =
                         IF pending_ok
                         THEN add_to_pending_queue_immediately(pending_queue, watch_email, id)
                         ELSE pending_queue
                   /\ ws' = [ws EXCEPT !.account_id = id, !.account_info = found,
                                       !.last_seen = found, !.activated = TRUE,
                                       !.pc = IF pending_ok THEN "b_lookup" ELSE "done",
                                       !.attempt = IF pending_ok THEN 1 ELSE 0,
                                       !.result = IF pending_ok THEN "running" ELSE "raised"]
                   /\ lastOp' = Op(IF pending_ok THEN "a_hit" ELSE "a_pending_raised", id,
                                   ws.initial_attempt, << >>)
          ELSE /\ pending_ok
               /\ ws' = [ws EXCEPT !.pc = "a_edit", !.account_info = found]
               /\ lastOp' = WatchOp("a_miss")
               /\ UNCHANGED << smart_cache, pending_queue >>
    /\ UNCHANGED << now, fetchVars, monitorVars, watch_account_id, quietRun >>

\* Phase A: message_obj.edit_text returns, or raises with no handler around it
WatchEditA ==
    /\ ws.pc = "a_edit"
    /\ \E o \in CallOutcomes :
          /\ ws' = IF o = "raise"
                   THEN [ws EXCEPT !.pc = "done", !.result = "raised"]
                   ELSE [ws EXCEPT !.pc = "a_sleep"]
          /\ lastOp' = WatchOp(IF o = "raise" THEN "a_edit_raised" ELSE "a_edit")
    /\ UNCHANGED << smart_cache, now, pending_queue, fetchVars, monitorVars,
                    watch_account_id, quietRun >>

\* Phase A: the sleep ends; the next attempt, or `if not account_id: return False, None`
WatchSleepA ==
    /\ ws.pc = "a_sleep"
    /\ \E d \in SessionClockSteps :
          /\ now + d <= MaxNow
          /\ now' = now + d
    /\ ws' = IF ws.initial_attempt < PhaseAAttempts
             THEN [ws EXCEPT !.pc = "a_lookup", !.initial_attempt = @ + 1]
             ELSE [ws EXCEPT !.pc = "done", !.result = "exhausted_a",
                             !.ret_success = FALSE, !.ret_record = None]
    /\ lastOp' = WatchOp(IF ws.initial_attempt < PhaseAAttempts THEN "a_sleep" ELSE "a_exhausted")
    /\ UNCHANGED << smart_cache, pending_queue, fetchVars, monitorVars,
                    watch_account_id, quietRun >>

\* Phase B: search_sender_by_id returns a record, or nothing, or raises (caught)
WatchLookupB ==
    /\ ws.pc = "b_lookup"
    /\ \E o \in CallOutcomes, found \in {None} \cup {Some(r) : r \in LookupRecords} :
          IF o = "raise"
          THEN /\ found = None
               /\ ws' = [ws EXCEPT !.pc = "b_sleep", !.pause = short_pause]
               /\ lastOp' = WatchOp("b_lookup_raised")
          ELSE IF found = None
          THEN /\ ws' = disappeared(ws)
               /\ lastOp' = WatchOp("b_disappeared")
          ELSE /\ Some(Upper(Val(found).Status)) # ws.last_status
                     => Len(ws.status_changes) < MaxStatusChanges
               /\ ws' = [track_status(ws, Upper(Val(found).Status))
                             EXCEPT !.pc = "b_edit", !.account_info = found, !.last_seen = found]
               /\ lastOp' = WatchOp("b_seen")
    /\ UNCHANGED << smart_cache, now, pending_queue, fetchVars, monitorVars,
                    watch_account_id, quietRun >>

\* Phase B: message_obj.edit_text returns or raises (caught); on a final status
\* the session applies the admission test and returns
WatchEditB ==
    /\ ws.pc = "b_edit"
    /\ \E o \in CallOutcomes :
          IF o = "value" /\ Upper(Val(ws.account_info).Status) \in FINAL_STATUSES
          THEN /\ \E read_ok \in IOOutcomes, write_ok \in IOOutcomes :
                     monitored' =
                         IF admission_policy(ws.account_info)
                         THEN add_monitored_account(monitored, watch_email, ws.account_id,
                                  "AVAILABLE", watch_chat_id, "bot", now, read_ok, write_ok)
                         ELSE monitored
               /\ smart_cache' = cancel_burst(smart_cache, ws.account_id)
               /\ ws' = session_end(ws, "final", admission_policy(ws.account_info))
               /\ lastOp' = WatchOp("b_final")
          ELSE /\ ws' = [ws EXCEPT !.pc = "b_sleep",
                                       !.pause = IF o = "raise" THEN short_pause
                                                 ELSE interval(smart_cache,
                                                          Upper(Val(ws.account_info).Status))]
               /\ lastOp' = WatchOp(IF o = "raise" THEN "b_edit_raised" ELSE "b_edit")
               /\ UNCHANGED << smart_cache, monitored >>
    /\ UNCHANGED << now, pending_queue, fetchVars, remote, taken_queue, default_chat_id,
                    ioFaulty, mon, budget, cycleLog, watch_account_id, quietRun >>

\* Phase B: the sleep ends; the next attempt starts with check_burst_mode, or the
\* budget is exhausted and the session ends on the record it holds
WatchSleepB ==
    /\ ws.pc = "b_sleep"
    /\ \E d \in SessionClockSteps :
          /\ now + d <= MaxNow
          /\ now' = now + d
          /\ IF ws.attempt < max_attempts
             THEN /\ smart_cache' = check_burst_mode(smart_cache, now + d)
                  /\ ws' = [ws EXCEPT !.pc = "b_lookup", !.attempt = @ + 1, !.pause = 0]
                  /\ lastOp' = WatchOp("b_sleep")
                  /\ UNCHANGED monitored
             ELSE /\ \E read_ok \in IOOutcomes, write_ok \in IOOutcomes :
                        monitored' =
                            IF admission_policy(ws.account_info)
                            THEN add_monitored_account(monitored, watch_email, ws.account_id,
                                     "AVAILABLE", watch_chat_id, "bot", now + d, read_ok, write_ok)
                            ELSE monitored
                  /\ smart_cache' = cancel_burst(smart_cache, ws.account_id)
                  /\ ws' = [session_end(ws, "exhausted_b", admission_policy(ws.account_info))
                                EXCEPT !.pause = 0]
                  /\ lastOp' = WatchOp("b_exhausted")
    /\ UNCHANGED << pending_queue, fetchVars, remote, taken_queue, default_chat_id,
                    ioFaulty, mon, budget, cycleLog, watch_account_id, quietRun >>

NextWatch ==
    \/ WatchLookupA
    \/ WatchEditA
    \/ WatchSleepA
    \/ WatchLookupB
    \/ WatchEditB
    \/ WatchSleepB

\* one watch session, from its first lookup to its end
SpecWatch == InitCache /\ [][NextWatch]_vars

(***************************************************************************)
(* Properties of the watch session.                                        *)
(***************************************************************************)

\* C11: a session whose Phase A lookups never yield a record with a non-empty
\* identifier returns (False, None) when its attempts are exhausted; as long as
\* it holds no identifier it has not activated the burst, has written no
\* external-sync item and has created no tracked record.
C11_NoIdentifierNoEffect ==
    /\ ws.result = "exhausted_a"
          => /\ ws.account_id = ""
             /\ ws.initial_attempt = PhaseAAttempts
             /\ ~ws.ret_success
             /\ ws.ret_record = None
    /\ (ws.pc = "done" /\ ws.account_id = "" /\ ws.result # "raised")
          => ws.result = "exhausted_a"
    /\ ws.account_id = ""
          => /\ ~ws.activated
             /\ ~smart_cache.burst_mode_active
             /\ smart_cache.burst_targets = {}
             /\ pending_queue = << >>
             /\ ~ws.admitted
             /\ monitored = << >>

\* C11 witness: the last of the Phase A attempts found a record without
\* identifier, and the session has returned (False, None)
C11_Witness ==
    /\ ws.pc = "done"
    /\ ws.result = "exhausted_a"
    /\ ws.initial_attempt = PhaseAAttempts
    /\ ws.account_info = Some(RecordWithoutId)
    /\ ~ws.ret_success
    /\ ws.ret_record = None

(***************************************************************************)
(* The extraction queue (src/sheets/taken.py) under any sequence of        *)
(* enqueues by the reconciliation loop and of clearings by the worker.     *)
(***************************************************************************)

\* the e-mail a tracked identifier is enqueued under, and the values enqueued
TakenEmails == ("7" :> "a@x.com") @@ ("8" :> "b@x.com")
TakenValues == {"1500", "2000", "0.5", "250"}

TakenEnqueue ==
    /\ \E id \in AccountIds, status \in {"AMOUNT_TAKEN", "DISABLED"}, taken_value \in TakenValues :
          /\ taken_queue' = add_to_taken_queue(taken_queue, id, TakenEmails[id], status, taken_value)
          /\ lastOp' = Op("add_to_taken_queue", id, 0,
                          [id |-> id, email |-> TakenEmails[id], status |-> status,
                           taken |-> taken_value])
    /\ UNCHANGED << smart_cache, now, fetchVars, remote, monitored, default_chat_id, ioFaulty,
                    mon, budget, cycleLog, watch_account_id, sessionVars, quietRun >>

TakenClear ==
    /\ \E id \in AccountIds :
          /\ taken_queue' = clear_taken_entry(taken_queue, id)
          /\ lastOp' = Op("clear_taken_entry", id, 0, << >>)
    /\ UNCHANGED << smart_cache, now, fetchVars, remote, monitored, default_chat_id, ioFaulty,
                    mon, budget, cycleLog, watch_account_id, sessionVars, quietRun >>

NextTaken ==
    \/ TakenEnqueue
    \/ TakenClear

SpecTaken == InitCache /\ [][NextTaken]_vars

\* the positions of the queue that hold an entry of the identifier
TakenEntriesOf(items, account_id) == {i \in 1..Len(items) : items[i].id = account_id}

SnapshotRecord(data) == Val(accounts_by_id(mon.all_accounts, data.account_id))

\* the store holds, under the entry's key, the given status
PersistedStatus(data, status) ==
    \E k \in 1..Len(monitored) :
        /\ monitored[k].key = data.key
        /\ monitored[k].last_known_status = status

\* the entry the loop has just found changed
JustChanged == mon.accounts[lastOp.n]

\* C13 (the claim as stated, the notification taken as due when the notify
\* target is non-zero): right after the loop found a tracked record changed to
\* AMOUNT TAKEN or DISABLED, if Taken does not parse or is not positive then no
\* extraction item was enqueued for it, the new status is persisted on the record
\* and the notification dispatched; if Taken is positive exactly one item with
\* that value was enqueued.
C13_ExtractionSkippedNotTheRest ==
    (lastOp.op = "check_changed" /\ SnapshotStatus(JustChanged) \in {"AMOUNT TAKEN", "DISABLED"})
        => LET data == JustChanged
               taken_value == SnapshotRecord(data).Taken
           IN  IF float_parses(taken_value) /\ FloatTable[taken_value] > 0
               THEN /\ Cardinality(EventsOf("taken", data.key)) = 1
                    /\ \A k \in EventsOf("taken", data.key) : cycleLog[k].taken = taken_value
               ELSE /\ EventsOf("taken", data.key) = {}
                    /\ PersistedStatus(data, SnapshotStatus(data))
                    /\ data.chat_id # 0 => Cardinality(EventsOf("notify", data.key)) = 1

\* C14 (the claim as stated): right after the loop found a tracked record with a
\* snapshot status different from its lastKnownStatus, the persisted
\* lastKnownStatus of the record is the snapshot status; and every extraction
\* item of the cycle belongs to a record that changed to AMOUNT TAKEN or DISABLED.
C14_ChangePersisted ==
    /\ lastOp.op = "check_changed"
          => PersistedStatus(JustChanged, SnapshotStatus(JustChanged))
    /\ \A k \in 1..Len(cycleLog) :
          cycleLog[k].kind = "taken"
              => /\ cycleLog[k].new \in {"AMOUNT TAKEN", "DISABLED"}
                 /\ cycleLog[k].old # cycleLog[k].new

(***************************************************************************)
(* Properties of the end of a watch session.                               *)
(***************************************************************************)

\* C15 (the claim as stated): whatever the lookups return and whichever call
\* raises, the session makes at most PhaseAAttempts + max_attempts attempts and
\* ends by returning, on a final status or on an exhausted attempt budget.
C15_SessionReturnsWithinBudget ==
    /\ ws.initial_attempt <= PhaseAAttempts
    /\ ws.attempt <= max_attempts
    /\ ws.pc = "done" => ws.result \in {"final", "exhausted_a", "exhausted_b"}

\* C16 (the claim as stated): no exception raised by a step of Phase A or
\* Phase B (a lookup, the edit of the progress message, the external-sync
\* enqueue) leaves the session; the session goes on or returns a value.
C16_NoExceptionEscapes ==
    ws.result # "raised"

\* C18 (the claim as stated): a session that returns from Phase B, on a final
\* status or on the exhausted budget, has created a tracked record (origin
\* "bot", notify target the caller's chat) if and only if the record it last
\* observed has status AVAILABLE and the target group.
C18_AdmissionIffAvailableInGroup ==
    (ws.pc = "done" /\ ws.result \in {"final", "exhausted_b"})
        => /\ ws.admitted <=> admission_policy(ws.last_seen)
           /\ IF ws.admitted
              THEN monitored = << TrackedEntry(watch_email, ws.account_id, "AVAILABLE",
                                               watch_chat_id, "bot", now) >>
              ELSE monitored = << >>

\* C19 (the claim as stated): a session that exhausts its Phase B budget returns
\* success with a record if it observed a record at any point, failure only if
\* it never did; success is returned iff a record is returned.
C19_TimeoutReturnsObservedRecord ==
    ws.result = "exhausted_b"
        => /\ ws.ret_success <=> ws.last_seen # None
           /\ ws.ret_success <=> ws.ret_record # None

(***************************************************************************)
(* The loop under failures: a stored record without "last_known_status"   *)
(* makes the per-record check raise (caught by the inner handler) and the  *)
(* computation of the delay raise (caught by the outer handler).           *)
(***************************************************************************)

\* except Exception: ... await asyncio.sleep(30)
error_cooldown == 30

\* two records of the target group
FairLayouts ==
    { << Rec("7", "A@x.com", "AVAILABLE", "G", "0"), Rec("8", "b@x.com", "AVAILABLE", "G", "0") >> }

\* monitored_accounts.json as an earlier run left it: both records tracked, or
\* both tracked and the first one without its status
FairStores ==
    LET a == TrackedEntry("A@x.com", "7", "AVAILABLE", 100, "manual", 0)
        b == TrackedEntry("b@x.com", "8", "AVAILABLE", 100, "manual", 0)
    IN  { << a, b >>, << [a EXCEPT !.last_known_status = MissingStatus], b >> }

\* the cooldown of the outer handler ends and the while loop starts over
MonitorCooldown ==
    /\ mon.pc = "cooldown"
    /\ budget.cycles < MaxCycles
    /\ now + error_cooldown <= MaxNow
    /\ now' = now + error_cooldown
    /\ mon' = [mon EXCEPT !.pc = "start"]
    /\ lastOp' = MonOp("cooldown")
    /\ UNCHANGED << smart_cache, fetchVars, remote, monitored, taken_queue, default_chat_id,
                    ioFaulty, budget, cycleLog, watch_account_id, sessionVars, quietRun >>

\* the steps of continuous_monitor itself
MonitorStep ==
    \/ MonitorCycleStart
    \/ MonitorFetchReturn
    \/ MonitorDiscover
    \/ MonitorDiscoverDone
    \/ MonitorCheckAccount
    \/ MonitorNotified
    \/ MonitorCycleEnd
    \/ MonitorSleep
    \/ MonitorCooldown

NextMonitorFair ==
    \/ MonitorStep
    \/ RemoteChange

InitMonitorFair ==
    /\ smart_cache = SmartCacheManager_init
    /\ InitFetch
    /\ now = 0
    /\ watch_account_id = [w \in Sessions |-> None]
    /\ InitSession
    /\ quietRun = 0
    /\ lastOp = MonOp("init")
    /\ remote \in FairLayouts
    /\ monitored \in FairStores
    /\ taken_queue = << >>
    /\ default_chat_id = None
    /\ mon = MonitorIdle
    /\ budget = [changes |-> 0, admissions |-> 0, cycles |-> 0, errors |-> 0]
    /\ cycleLog = << >>
    /\ ioFaulty = FALSE

\* the event loop resumes the task after every await, and every sleep ends
SpecMonitorFair == InitMonitorFair /\ [][NextMonitorFair]_vars /\ WF_vars(MonitorStep)

\* a cycle is between its start and its sleep
CycleInProgress == mon.pc \in {"fetching", "discover", "loop", "notify"}

\* the model lets the loop start another cycle
CanGoOn == budget.cycles < MaxCycles /\ now + error_cooldown <= MaxNow

\* C17: the loop never stops. A cycle in progress ends in the sleep between
\* cycles or, when a step raised, in the cooldown of the handler; from either,
\* another cycle begins; and a check that raises on one tracked record moves
\* on to the next record, the cycle reaching its end with every record of the
\* mapping gone through.
C17_LoopNeverStops ==
    /\ CycleInProgress ~> (mon.pc \in {"sleep", "cooldown"})
    /\ (mon.pc \in {"sleep", "cooldown"} /\ CanGoOn) ~> (lastOp.op = "cycle_start")
    /\ [][lastOp'.op = "check_error" => mon'.pc = "loop" /\ mon'.idx = mon.idx + 1]_vars
    /\ (lastOp.op = "check_error")
           ~> (mon.pc \in {"sleep", "cooldown"} /\ Processed = 1..Len(mon.accounts))

\* C17 (witness): a cycle has begun after the handler caught an error of the
\* cycle before and slept the cooldown.
C17_Witness ==
    /\ budget.errors >= 1
    /\ lastOp.op = "cycle_start"

\* a check raised on the first record and the cycle went through the second
C17_OthersChecked ==
    /\ mon.pc = "cooldown"
    /\ Len(mon.accounts) >= 2
    /\ \E k \in 1..Len(cycleLog) :
          cycleLog[k].kind = "error" /\ cycleLog[k].key = mon.accounts[1].key
    /\ Processed = 1..Len(mon.accounts)

(***************************************************************************)
(* Side effects across cycles.                                             *)
(***************************************************************************)

\* the (key, new status) pairs a log reports with events of one kind
Reported(log, kind) ==
    {<< log[k].key, log[k].new >> : k \in {n \in 1..Len(log) : log[n].kind = kind}}

\* C20 (the claim as stated): one remote transition of a tracked record gives at
\* most one notification and at most one extraction enqueue: a cycle that runs
\* over the same snapshot as the cycle before reports no record with the status
\* the cycle before already reported for it.
C20_OneReportPerTransition ==
    mon.prev_all_accounts = Some(mon.all_accounts)
        => /\ Reported(cycleLog, "notify") \cap Reported(mon.prev_log, "notify") = {}
           /\ Reported(cycleLog, "taken") \cap Reported(mon.prev_log, "taken") = {}

(***************************************************************************)
(* Further properties of the shared cache, checked under SpecCache.        *)
(***************************************************************************)

C22_LastGoodOnlyBySuccess ==
    [][ /\ lastOp'.op = "update_ok"
            => smart_cache'.last_successful_cache = Some(lastOp'.data)
        /\ lastOp'.op # "update_ok"
            => smart_cache'.last_successful_cache = smart_cache.last_successful_cache
        /\ smart_cache.last_successful_cache # None
            => smart_cache'.last_successful_cache # None
      ]_vars

\* C22 witness: add_sender has just dropped the snapshot of a cache whose last
\* successful update was made earlier, and the last good snapshot is still held
C22_Witness ==
    /\ lastOp.op = "add_sender"
    /\ smart_cache.cache = None
    /\ smart_cache.last_successful_cache # None
    /\ Val(smart_cache.last_successful_timestamp) < now

\* C23 (the claim as stated): a failed update_cache call leaves the cache's
\* timestamp exactly as it was before the call, none included, while the
\* snapshot falls back to the last good one.
C23_FailedUpdateKeepsTimestamp ==
    [][ lastOp'.op = "update_failed" =>
          /\ smart_cache'.cache_timestamp = smart_cache.cache_timestamp
          /\ Truthy(smart_cache.last_successful_cache)
                => smart_cache'.cache = smart_cache.last_successful_cache
      ]_vars

\* the part of C23 that the code keeps: on a failed update the snapshot falls
\* back to the last good one when it is non-empty, and a timestamp that was set
\* stays as it was
C23_FallbackWhenTimestampSet ==
    [][ lastOp'.op = "update_failed" =>
          /\ smart_cache.cache_timestamp # None
                => smart_cache'.cache_timestamp = smart_cache.cache_timestamp
          /\ Truthy(smart_cache.last_successful_cache)
                => smart_cache'.cache = smart_cache.last_successful_cache
      ]_vars

\* C24: check_burst_mode changes nothing when burst is inactive or when less
\* than BURST_MODE_DURATION has elapsed since the activation; with at least
\* BURST_MODE_DURATION elapsed it clears the flag, the start timestamp and the
\* whole target set in one step, and leaves the snapshot, its timestamp, the
\* TTL, the quiet counter and the last good snapshot as they were.
C24_ExpiryCheck ==
    [][ lastOp'.op = "check_burst_mode" =>
          IF ~smart_cache.burst_mode_active
          THEN smart_cache' = smart_cache
          ELSE IF now - Val(smart_cache.burst_mode_started) < BURST_MODE_DURATION
          THEN smart_cache' = smart_cache
          ELSE smart_cache' = [smart_cache EXCEPT !.burst_mode_active = FALSE,
                                                    !.burst_mode_started = None,
                                                    !.burst_targets = {}]
      ]_vars

\* C24 witness: the check has just ended a burst that two sessions had joined,
\* over a snapshot that is still held
C24_Witness ==
    /\ lastOp.op = "check_burst_mode"
    /\ lastOp.id = "expired"
    /\ \A w \in Sessions : watch_account_id[w] # None
    /\ ~smart_cache.burst_mode_active
    /\ smart_cache.burst_targets = {}
    /\ smart_cache.cache # None

(***************************************************************************)
(* The loop next to a watch session that ends by an exception in Phase A.  *)
(***************************************************************************)

\* Phase A finds the record, activates the burst, and the write of pending.json
\* raises: the session is over, with the burst left on
WatchCrashA ==
    /\ mon.pc \in SuspensionPoints \cup {"cooldown"}
    /\ WatchLookupA
    /\ ws'.activated
    /\ ws'.result = "raised"

NextBurstFair ==
    \/ NextMonitorFair
    \/ WatchCrashA

\* the loop's steps are fair; no other watch session is started
SpecBurstFair == InitMonitorFair /\ [][NextBurstFair]_vars /\ WF_vars(MonitorStep)

\* the burst has lasted its duration
BurstDue ==
    /\ smart_cache.burst_mode_active
    /\ now - Val(smart_cache.burst_mode_started) >= BURST_MODE_DURATION

\* C25 (the claim as stated): burst mode is bounded by the wall clock: when it
\* has been active for BURST_MODE_DURATION and the loop runs one more cycle, it
\* becomes inactive, also when the session that activated it ended by an
\* exception in Phase A and no other session is running.
C25_BurstEndsOnceDurationElapsed ==
    (BurstDue /\ mon.pc = "start" /\ budget.cycles < MaxCycles)
        ~> ~smart_cache.burst_mode_active

\* why the burst outlives every cycle: no step of the loop, the handler's
\* cooldown included, writes the burst flag, its start time or its targets
C25_LoopLeavesBurstAlone ==
    [][ MonitorStep =>
          /\ smart_cache'.burst_mode_active = smart_cache.burst_mode_active
          /\ smart_cache'.burst_mode_started = smart_cache.burst_mode_started
          /\ smart_cache'.burst_targets = smart_cache.burst_targets
      ]_vars

(***************************************************************************)
(* Further properties of a watch session, checked under SpecWatch.         *)
(***************************************************************************)

\* the session is in Phase B, or has returned from it
ReachedPhaseB ==
    \/ ws.pc \in {"b_lookup", "b_edit", "b_sleep"}
    \/ ws.result \in {"final", "exhausted_b"}

attempts_shown == 15

\* C27 (the claim as stated): Phase A gives up, and the session returns 'not
\* found', after as many lookups by key as the total shown to the user, 15.
C27_PhaseAMakesFifteenAttempts ==
    ws.result = "exhausted_a" => ws.initial_attempt = attempts_shown

\* what the session has sampled so far
Sampled(w) == << w.last_status, w.status_changes, w.fast_detections >>

\* C30: a Phase B attempt whose lookup by identifier returns no record is not a
\* status sample: the status last observed, the history of changes and the
\* fast-detection count stay as they were, no tracked record is created, the
\* burst flag and targets are not touched, the session does not return, and the
\* fixed pause of 2 s comes next.
C30_MissingRecordIsNoSample ==
    [][ lastOp'.op = "b_disappeared" =>
          /\ Sampled(ws') = Sampled(ws)
          /\ monitored' = monitored
          /\ ws'.admitted = ws.admitted
          /\ smart_cache' = smart_cache
          /\ ws'.attempt = ws.attempt
          /\ ws'.result = "running"
          /\ ws'.pc = "b_sleep"
          /\ ws'.pause = short_pause
      ]_vars

\* C30 witness: the record has just disappeared from a session that had seen
\* it go from LOGGING to AVAILABLE, while the burst was on
C30_Witness ==
    /\ lastOp.op = "b_disappeared"
    /\ ws.status_changes = << "LOGGING", "AVAILABLE" >>
    /\ ws.fast_detections = 1
    /\ ws.account_info = None
    /\ smart_cache.burst_mode_active
    /\ ws.pause = short_pause

(***************************************************************************)
(* Further properties of the reconciliation loop, checked under SpecMonitor. *)
(***************************************************************************)

\* C28 (the claim as stated): the delay before the next cycle is chosen from
\* the statuses the tracked records have at the end of the cycle, after the
\* cycle's updates were persisted: the short band if any is LOGGING, else the
\* medium band if any is AVAILABLE or ACTIVE, else the long band.
C28_DelayFromStatusesAtCycleEnd ==
    lastOp.op = "cycle_end" => mon.cycle_delay = cycle_delay_band(monitored)

\* what the code does: the band is chosen from the mapping the cycle loaded
\* before its checks
C28_DelayFromLoadedMapping ==
    lastOp.op = "cycle_end" => mon.cycle_delay = cycle_delay_band(mon.accounts)

\* the steps of a cycle that run over its snapshot
CycleOps ==
    {"discover_add", "discover_skip", "discover_done", "cycle_error", "check_absent",
     "check_error", "check_changed", "check_unchanged", "notified", "cycle_end"}

\* the persisted records whose identifier the cycle's snapshot does not list
AbsentFromSnapshot ==
    {i \in 1..Len(monitored) :
        /\ monitored[i].account_id # ""
        /\ accounts_by_id(mon.all_accounts, monitored[i].account_id) = None}

\* C29 (the claim as stated): a tracked record whose identifier is absent from
\* the cycle's snapshot, an empty batch after a failed fetch included, is left
\* as it is by every step of that cycle: it stays in the store with the same
\* fields; and the step that finds it absent sends no notification, enqueues
\* no extraction and does not count a change.
C29_AbsentRecordUntouched ==
    [][ lastOp'.op \in CycleOps =>
          /\ \A i \in AbsentFromSnapshot :
                \E k \in 1..Len(monitored') : monitored'[k] = monitored[i]
          /\ lastOp'.op = "check_absent" =>
                /\ monitored' = monitored
                /\ cycleLog' = cycleLog
                /\ taken_queue' = taken_queue
                /\ mon'.changes_detected = mon.changes_detected
      ]_vars

(***************************************************************************)
(* Calls of fetch_all_accounts_batch in flight at once (SpecFetch).        *)
(***************************************************************************)

\* C31: with several fetches in flight, the last one to complete wins: after
\* every successful fetch completes, the cache's snapshot and its last good
\* snapshot are that fetch's result and both timestamps are its completion
\* time, also when a call issued later had completed with a snapshot before.
C31_LastWriterWins ==
    lastOp.op = "fetch_ok" =>
        /\ smart_cache.cache = Some(lastOp.data)
        /\ smart_cache.last_successful_cache = Some(lastOp.data)
        /\ smart_cache.cache_timestamp = Some(now)
        /\ smart_cache.last_successful_timestamp = Some(now)

\* C31 witness: a call completes with a snapshot after a call issued later
\* had completed with one, and its result is what the cache holds
C31_Witness ==
    /\ lastOp.op = "fetch_ok"
    /\ lastOp.n = 1
    /\ smart_cache.cache = Some(lastOp.data)
    /\ now > 0

(***************************************************************************)
(* Further properties of the tracked records (SpecMonitor).                *)
(***************************************************************************)

\* C32 (the claim as stated): in every reachable state of the tracked-record
\* store no two tracked records have the same identifier, under any
\* interleaving of the loop's discovery and of watch-session admissions.
C32_OneRecordPerIdentifier ==
    \A i, k \in 1..Len(monitored) :
        monitored[i].account_id = monitored[k].account_id => i = k

(***************************************************************************)
(* Further properties of burst mode (SpecCache).                           *)
(***************************************************************************)

\* C33 (the claim as stated): in every reachable state, if burst mode is
\* inactive then the set of burst targets is empty; with two watch sessions
\* at once, after one of them ends no identifier of the other remains in the
\* set while the flag is off.
C33_InactiveBurstHasNoTargets ==
    ~smart_cache.burst_mode_active => smart_cache.burst_targets = {}

(***************************************************************************)
(* Further properties of the calls in flight (SpecFetch).                  *)
(***************************************************************************)

\* C34 (the claim as stated): after add_sender has invalidated the cache,
\* is_cache_valid() stays false until a fetch succeeds, also when the fetches
\* issued in between fail; so no call is answered from the cache in between.
C34_InvalidUntilFetchSucceeds ==
    flight.invalidated =>
        /\ ~is_cache_valid(smart_cache, now)
        /\ lastOp.op # "fetch_hit"

\* C35 (the claim as stated): one call of fetch_all_accounts_batch retries at
\* most once after a 403/419 response, so it sends at most two batch requests.
C35_AtMostOneRetry ==
    \A f \in Callers : flight.posts[f] <= 2

(***************************************************************************)
(* Writers of the tracked records interleaved with a cycle (SpecMonitor).  *)
(***************************************************************************)

\* what an admission writes and no later step has a reason to rewrite
Admitted(e) ==
    [ key |-> e.key, email |-> e.email, account_id |-> e.account_id,
      chat_id |-> e.chat_id, source |-> e.source, added_at |-> e.added_at ]

\* the record e is in the store f with what its admission wrote
Kept(f, e) == \E k \in 1..Len(f) : Admitted(f[k]) = Admitted(e)

\* C36 (the claim as stated): no tracked-record write is lost to interleaving:
\* a record that a watch session admitted while the cycle was suspended is
\* still in the store, with the fields the admission wrote, after every
\* later step of that cycle.
C36_AdmissionSurvivesCycle ==
    [][ lastOp'.op \in CycleOps =>
          \A i \in 1..Len(monitored) :
              monitored[i].source = "bot" => Kept(monitored', monitored[i])
      ]_vars

\* the part of C36 that holds: the status updates of a cycle keep every
\* record, and change only the status and the check time of the record updated
C36_StatusUpdatesKeepRecords ==
    [][ lastOp'.op \in {"check_absent", "check_error", "check_changed", "check_unchanged", "notified"} =>
          /\ Len(monitored') = Len(monitored)
          /\ \A i \in 1..Len(monitored) : Admitted(monitored'[i]) = Admitted(monitored[i])
      ]_vars

(***************************************************************************)
(* The quiet-cycle counter and the cycle's fetch (SpecMonitor).            *)
(* mon.fetched is history: "hit" when the cycle was answered from the      *)
(* cache, "ok" when its fetch parsed a response, "failed" otherwise.       *)
(***************************************************************************)

\* C37 (the claim as stated): the quiet-cycle counter advances only in cycles
\* whose tracked records were compared against a successfully fetched
\* snapshot: a cycle whose fetch failed and returned an empty batch leaves
\* the counter and the TTL as they were.
C37_FailedFetchIsNotQuiet ==
    [][ (lastOp'.op \in {"cycle_end", "cycle_error"}
           /\ mon.fetched = "failed" /\ mon.all_accounts = << >>)
          => /\ smart_cache'.consecutive_quiet_cycles = smart_cache.consecutive_quiet_cycles
             /\ smart_cache'.cache_ttl = smart_cache.cache_ttl
      ]_vars

(***************************************************************************)
(* Persist before notify (SpecMonitor).                                    *)
(***************************************************************************)

\* the loop has just dispatched the notification of a change and is suspended in it
NotificationDispatched == lastOp.op = "check_changed" /\ mon.pc = "notify"

\* C38 (the claim as stated): whenever a notification for old -> new is
\* dispatched, the persisted lastKnownStatus of that record already equals
\* new, and the extraction item, if due, is already in the queue.
C38_PersistedBeforeNotified ==
    NotificationDispatched =>
        /\ PersistedStatus(JustChanged, SnapshotStatus(JustChanged))
        /\ \A k \in 1..Len(cycleLog) :
              (cycleLog[k].kind = "taken" /\ cycleLog[k].key = JustChanged.key)
                  => \E q \in 1..Len(taken_queue) : taken_queue[q].id = JustChanged.account_id

\* the part of C38 that holds: the order of the steps is as stated, and the
\* persisted status is the new one when the record is the first of the store
\* with its identifier
C38_PersistedWhenFirstOfItsIdentifier ==
    (NotificationDispatched
       /\ \A k \in 1..Len(monitored) :
             monitored[k].account_id = JustChanged.account_id
                 => \E h \in 1..k : monitored[h].key = JustChanged.key)
        => PersistedStatus(JustChanged, SnapshotStatus(JustChanged))

====
